---- MODULE Spec2Model ----
(***************************************************************************)
(* Access control and credential lifecycle of Login-_V2.                   *)
(*                                                                         *)
(*   Spec        the admin-users edge function                             *)
(*               (supabase/functions/admin-users/index.ts): one request    *)
(*               at a time, one action per await of the handler, over the  *)
(*               directory store (table users) and the identity provider.  *)
(*   SpecAccess  the pure access-decision functions (hasPermission,        *)
(*               hasMenuAccess, hasSubMenuAccess, hasComponentAccess)      *)
(*               applied to principals drawn from a bounded set.           *)
(*   SpecReset   the browser side of the credential lifecycle:             *)
(*               AuthContext.changePassword (src/types/database.ts) and    *)
(*               ResetPasswordPage, one action per await or event, over    *)
(*               the same store and identity provider.                     *)
(*   SpecAuth    the AuthProvider (src/types/database.ts): init, the       *)
(*               auth-state listener, refreshUser, signIn, signOut and     *)
(*               sendPasswordResetEmail, their awaits interleaved.         *)
(*   SpecLoading SpecAuth with changePassword among the calls.             *)
(*   SpecPut     EditUserModal (src/pages/AdminUsers.tsx), two PUT         *)
(*               handlers of admin-users side by side, and the password    *)
(*               change of the principal being edited.                     *)
(***************************************************************************)
EXTENDS Integers, Sequences, FiniteSets, TLC

VARIABLES
    users,      \* directory store, table users: id -> row (partial function)
    authUsers,  \* identity provider: id -> [email, password]
    minted,     \* ids the identity provider has ever handed out
    pc,         \* position of the admin-users handler
    req,        \* the request being handled
    caller,     \* `user` of line 42: the id the provider resolved, or NoUser
    callerRole, \* userData.roles?.name of line 57, or NoRole
    authUser,   \* `authUser.user.id` of line 88 (POST), or NoUser
    resp,       \* the response returned: [status, kind]
    calls,      \* store / provider calls made for the current request
    nreq,       \* number of requests received so far
    links,      \* reset links asked of the provider for the current request
    pUser,      \* access functions: the principal decided about (or Null)
    query,      \* access functions: the last call made
    result,     \* access functions: what the last call returned
    session,    \* browser: the user of the supabase client's session, or NoUser
    ctx,        \* AuthContext state: [user, loading, error]
    cp,         \* the changePassword call in flight (its locals), or NoCall
    page,       \* ResetPasswordPage state
    pending,    \* passwords whose validatePasswordStrength has not answered yet
    si,         \* the signIn call in flight (its locals), or NoSignIn
    so,         \* the signOut call in flight, or NoSignOut
    sr,         \* the sendPasswordResetEmail call in flight, or NoSend
    tasks,      \* callbacks of init, the auth listener and refreshUser under way
    resets,     \* identity provider: reset tokens issued and not redeemed
    nauth,      \* number of AuthContext calls and listener events so far
    form,       \* EditUserModal state: the principal edited and formData
    puts        \* PUT handlers past the guard, running side by side

serverVars == <<users, authUsers, minted, pc, req, caller, callerRole, authUser,
                resp, calls, nreq, links>>
accessVars == <<pUser, query, result>>
clientVars == <<session, ctx, cp, page, pending>>
moreVars == <<si, so, sr, tasks, resets, nauth, form, puts>>
otherVars == <<accessVars, clientVars, moreVars>>
serverRest == <<minted, pc, req, caller, callerRole, authUser, resp, calls, nreq, links>>
vars == <<serverVars, accessVars, clientVars, moreVars>>

(***************************************************************************)
(* Bounds                                                                  *)
(***************************************************************************)
MaxRequests == 2    \* requests received in one behaviour
MaxGrants == 1      \* length of a grant array (menu / sub-menu / component)

(***************************************************************************)
(* Values                                                                  *)
(***************************************************************************)
Ids == {"u1", "u2", "u3"}
NoUser == "nouser"
NoRole == "norole"                  \* roles join is null / undefined
NullRoleId == "null"                \* users.role_id is null
Tokens == {"tA", "tB", "tC", "bad"}
Methods == {"OPTIONS", "GET", "POST", "PUT", "DELETE", "PATCH"}

\* roles(name): the join of users.role_id with table roles
RoleNameOf(role_id) ==
    CASE role_id = "r_admin" -> "admin"
      [] role_id = "r_member" -> "member"
      [] role_id = "r_viewer" -> "viewer"
      [] OTHER -> NoRole

\* the user a bearer token was issued to (the token's subject)
TokenOwner(t) ==
    CASE t = "tA" -> "u1"
      [] t = "tB" -> "u2"
      [] t = "tC" -> "u3"
      [] OTHER -> NoUser


(***************************************************************************)
(* Requests                                                                *)
(***************************************************************************)
\* url.pathname as its segments; the last one is what split('/').pop() gives
Paths == {<<"admin-users">>} \cup {<<"admin-users", id>> : id \in {"u1", "u2"}}

\* the Authorization header: absent (null), or the string scheme \o token
NoHeader == [present |-> FALSE, scheme |-> "", token |-> ""]
Headers ==
    {NoHeader, [present |-> TRUE, scheme |-> "", token |-> ""]}
    \cup {[present |-> TRUE, scheme |-> "Bearer ", token |-> t] : t \in Tokens}
    \cup {[present |-> TRUE, scheme |-> "", token |-> "tA"]}

\* JSON bodies are partial records: a field that is absent is undefined
NoBody == [none |-> TRUE]
PostBodies ==
    {[email |-> e, password |-> "Temp#1234", full_name |-> "New"] @@ opt :
        e \in {"b@x", "c@x"},
        opt \in {[role_id |-> "r_viewer"],
                 [role_id |-> "r_admin", needs_password_reset |-> FALSE,
                  menu_access |-> <<"users">>]}}
    \cup {[email |-> "c@x", password |-> "abc12345", full_name |-> "New",
           role_id |-> "r_viewer"]}
PutBodies ==
    {[is_active |-> FALSE],
     [role_id |-> "r_admin"],
     [role_id |-> NullRoleId, needs_password_reset |-> FALSE],
     [needs_password_reset |-> TRUE],
     [full_name |-> "Renamed", email |-> "c@x", menu_access |-> <<"users">>]}

BodiesOf(method) ==
    CASE method = "POST" -> PostBodies
      [] method = "PUT" -> PutBodies
      [] OTHER -> {NoBody}

\* bodyOk = FALSE: the body is not JSON, req.json() throws
Requests ==
    UNION {[method : {m}, path : Paths, header : Headers, body : BodiesOf(m),
            bodyOk : IF m \in {"POST", "PUT"} THEN BOOLEAN ELSE {TRUE}] : m \in Methods}

NoRequest == [method |-> "none", path |-> <<"none">>, header |-> NoHeader,
              body |-> NoBody, bodyOk |-> TRUE]

Has(body, f) == f \in DOMAIN body
Field(body, f, default) == IF f \in DOMAIN body THEN body[f] ELSE default

\* url.pathname.endsWith('/admin-users')
EndsWithAdminUsers(path) == path[Len(path)] = "admin-users"
\* url.pathname.split('/').pop()
LastSegment(path) == path[Len(path)]

\* !authHeader: null or the empty string
HeaderMissing(h) == ~h.present \/ (h.scheme = "" /\ h.token = "")
\* authHeader.replace('Bearer ', '')
StripBearer(h) == h.token

(***************************************************************************)
(* Responses                                                               *)
(***************************************************************************)
NoResponse == [status |-> 0, kind |-> "none"]
Response(status, kind) == [status |-> status, kind |-> kind]

(***************************************************************************)
(* The guard, lines 33-62                                                  *)
(***************************************************************************)
\* supabase.auth.getUser(token): the user the token belongs to, when the
\* provider answers and still holds that user; an error otherwise
GetUser(token, providerOk) ==
    IF providerOk /\ TokenOwner(token) \in DOMAIN authUsers
    THEN [error |-> FALSE, user |-> TokenOwner(token)]
    ELSE [error |-> TRUE, user |-> NoUser]

AuthRejectedNever(r) == FALSE
\* line 44: authError || !user
AuthRejected(r) == r.error \/ r.user = NoUser

\* lines 51-55: from('users').select('role_id, roles(name)').eq('id', id).single()
\* .single() answers an error when no row matches
SelectRole(id, storeOk) ==
    IF storeOk /\ id \in DOMAIN users
    THEN [error |-> FALSE, hasData |-> TRUE, roleName |-> RoleNameOf(users[id].role_id)]
    ELSE [error |-> TRUE, hasData |-> FALSE, roleName |-> NoRole]

RoleDeniedAllowsAny(r) == r.error \/ ~r.hasData
RoleDeniedOnlyKnownRole(r) == ~r.error /\ r.hasData /\ r.roleName \notin {"admin", NoRole}
\* line 57: userError || !userData || userData.roles?.name !== 'admin'
RoleDenied(r) == r.error \/ ~r.hasData \/ r.roleName # "admin"


(***************************************************************************)
(* Store and provider operations used by the handlers                      *)
(***************************************************************************)
FreshIds == Ids \ minted
EmailTaken(table, email) == \E id \in DOMAIN table : table[id].email = email

InsertedRowFromBody(id, body) ==
    [id |-> id,
     email |-> body.email,
     full_name |-> Field(body, "full_name", ""),
     role_id |-> Field(body, "role_id", NullRoleId),
     menu_access |-> Field(body, "menu_access", <<>>),
     sub_menu_access |-> Field(body, "sub_menu_access", <<>>),
     component_access |-> Field(body, "component_access", <<>>),
     is_active |-> TRUE,
     needs_password_reset |-> Field(body, "needs_password_reset", TRUE)]
\* lines 98-107: the row POST inserts; is_active is not given and takes the
\* column default; needs_password_reset is the literal true
InsertedRow(id, body) ==
    [id |-> id,
     email |-> body.email,
     full_name |-> Field(body, "full_name", ""),
     role_id |-> Field(body, "role_id", NullRoleId),
     menu_access |-> Field(body, "menu_access", <<>>),
     sub_menu_access |-> Field(body, "sub_menu_access", <<>>),
     component_access |-> Field(body, "component_access", <<>>),
     is_active |-> TRUE,
     needs_password_reset |-> TRUE]

\* line 139 / 143: the seven fields PUT reads from the body; undefined ones
\* are dropped from the update
UpdatableFields == {"full_name", "role_id", "menu_access", "sub_menu_access",
                    "component_access", "is_active", "needs_password_reset"}
UpdatedRowAnyField(row, body) ==
    [f \in DOMAIN row |-> IF Has(body, f) THEN body[f] ELSE row[f]]
UpdatedRowTorn(row, body) ==
    LET fs == {f \in UpdatableFields : Has(body, f)}
    IN IF fs = {} THEN row
       ELSE LET g == CHOOSE f \in fs : TRUE IN [row EXCEPT ![g] = body[g]]
UpdatedRow(row, body) ==
    [f \in DOMAIN row |-> IF f \in UpdatableFields /\ Has(body, f) THEN body[f] ELSE row[f]]

\* JS truthiness of body.needs_password_reset (line 155)
Truthy(body, f) == Has(body, f) /\ body[f] = TRUE

Done(r) ==
    /\ pc' = "done"
    /\ resp' = r

\* the calls of the guard itself; every other call is made for the operation
GuardCalls == {"auth.getUser", "users.select.role"}
OperationCalls == calls \ GuardCalls

(***************************************************************************)
(* The handler, one action per await                                       *)
(***************************************************************************)
Receive ==
    /\ pc \in {"idle", "done"}
    /\ nreq < MaxRequests
    /\ \E r \in Requests : req' = r
    /\ nreq' = nreq + 1
    /\ pc' = "start"
    /\ caller' = NoUser
    /\ callerRole' = NoRole
    /\ authUser' = NoUser
    /\ resp' = NoResponse
    /\ calls' = {}
    /\ links' = <<>>
    /\ UNCHANGED <<users, authUsers, minted, otherVars>>

\* lines 22-24
Preflight ==
    /\ pc = "start"
    /\ req.method = "OPTIONS"
    /\ Done(Response(200, "preflight"))
    /\ UNCHANGED <<users, authUsers, minted, req, caller, callerRole, authUser,
                   calls, nreq, links, otherVars>>

\* lines 33-49
Authenticate ==
    /\ pc = "start"
    /\ req.method # "OPTIONS"
    /\ IF HeaderMissing(req.header)
       THEN /\ Done(Response(401, "unauthenticated"))
            /\ UNCHANGED <<caller, calls>>
       ELSE /\ calls' = calls \cup {"auth.getUser"}
            /\ \E providerOk \in BOOLEAN :
                 LET r == GetUser(StripBearer(req.header), providerOk) IN
                 IF AuthRejected(r)
                 THEN /\ Done(Response(401, "unauthenticated"))
                      /\ UNCHANGED caller
                 ELSE /\ caller' = r.user
                      /\ pc' = "role"
                      /\ UNCHANGED resp
    /\ UNCHANGED <<users, authUsers, minted, req, callerRole, authUser, nreq,
                   links, otherVars>>

\* lines 51-62
Authorize ==
    /\ pc = "role"
    /\ calls' = calls \cup {"users.select.role"}
    /\ \E storeOk \in BOOLEAN :
         LET r == SelectRole(caller, storeOk) IN
         /\ callerRole' = r.roleName
         /\ IF RoleDenied(r)
            THEN Done(Response(403, "forbidden"))
            ELSE /\ pc' = "dispatch"
                 /\ UNCHANGED resp
    /\ UNCHANGED <<users, authUsers, minted, req, caller, authUser, nreq,
                   links, otherVars>>

\* lines 68-81
ListUsers ==
    /\ pc = "dispatch"
    /\ req.method = "GET"
    /\ EndsWithAdminUsers(req.path)
    /\ calls' = calls \cup {"users.select"}
    /\ \E storeOk \in BOOLEAN :
         Done(IF storeOk THEN Response(200, "users") ELSE Response(500, "error"))
    /\ UNCHANGED <<users, authUsers, minted, req, caller, callerRole, authUser,
                   nreq, links, otherVars>>


\* lines 84-94: req.json(), then auth.admin.createUser; a body that is not
\* JSON throws and lands in the catch of lines 183-186
PostCreateUser ==
    /\ pc = "dispatch"
    /\ req.method = "POST"
    /\ EndsWithAdminUsers(req.path)
    /\ IF ~req.bodyOk
       THEN /\ Done(Response(500, "internal"))
            /\ UNCHANGED <<authUsers, minted, authUser, calls>>
       ELSE /\ calls' = calls \cup {"auth.admin.createUser"}
            /\ \E providerOk \in BOOLEAN :
                 IF providerOk /\ ~EmailTaken(authUsers, req.body.email) /\ FreshIds # {}
                 THEN \E id \in FreshIds :
                        /\ authUsers' = authUsers @@
                              (id :> [email |-> req.body.email, password |-> req.body.password])
                        /\ minted' = minted \cup {id}
                        /\ authUser' = id
                        /\ pc' = "post_insert"
                        /\ UNCHANGED resp
                 ELSE /\ Done(Response(400, "error"))
                      /\ UNCHANGED <<authUsers, minted, authUser>>
    /\ UNCHANGED <<users, req, caller, callerRole, nreq, links, otherVars>>

\* lines 96-115: insert the directory row; the store refuses a second row
\* with the same id or email
PostInsert ==
    /\ pc = "post_insert"
    /\ calls' = calls \cup {"users.insert"}
    /\ \E storeOk \in BOOLEAN :
         IF storeOk /\ authUser \notin DOMAIN users /\ ~EmailTaken(users, req.body.email)
         THEN /\ users' = users @@ (authUser :> InsertedRow(authUser, req.body))
              /\ pc' = "post_link"
         ELSE /\ pc' = "post_rollback"
              /\ UNCHANGED users
    /\ UNCHANGED <<authUsers, minted, req, caller, callerRole, authUser, resp,
                   nreq, links, otherVars>>

\* lines 115-118: the answer of deleteUser is not looked at
PostRollback ==
    /\ pc = "post_rollback"
    /\ calls' = calls \cup {"auth.admin.deleteUser"}
    /\ \E providerOk \in BOOLEAN :
         authUsers' = IF providerOk
                      THEN [id \in DOMAIN authUsers \ {authUser} |-> authUsers[id]]
                      ELSE authUsers
    /\ Done(Response(400, "error"))
    /\ UNCHANGED <<users, minted, req, caller, callerRole, authUser, nreq, links, otherVars>>

PostLinkFailureAnswers500 ==
    /\ pc = "post_link"
    /\ calls' = calls \cup {"auth.admin.generateLink"}
    /\ \E linkOk \in BOOLEAN :
         /\ links' = Append(links, [email |-> req.body.email, ok |-> linkOk])
         /\ Done(IF linkOk THEN Response(201, "created") ELSE Response(500, "internal"))
    /\ UNCHANGED <<users, authUsers, minted, req, caller, callerRole, authUser,
                   nreq, otherVars>>
\* lines 120-132: the reset link; its failure (an error answered or thrown)
\* is logged only
PostLink ==
    /\ pc = "post_link"
    /\ calls' = calls \cup {"auth.admin.generateLink"}
    /\ \E linkOk \in BOOLEAN :
         links' = Append(links, [email |-> req.body.email, ok |-> linkOk])
    /\ Done(Response(201, "created"))
    /\ UNCHANGED <<users, authUsers, minted, req, caller, callerRole, authUser,
                   nreq, otherVars>>

\* lines 136-152 and 171
PutUpdate ==
    /\ pc = "dispatch"
    /\ req.method = "PUT"
    /\ IF ~req.bodyOk
       THEN /\ Done(Response(500, "internal"))
            /\ UNCHANGED <<users, calls>>
       ELSE /\ calls' = calls \cup {"users.update"}
            /\ \E storeOk \in BOOLEAN :
                 LET userId == LastSegment(req.path) IN
                 IF storeOk /\ userId \in DOMAIN users
                 THEN /\ users' = [users EXCEPT ![userId] = UpdatedRow(@, req.body)]
                      /\ IF Truthy(req.body, "needs_password_reset")
                         THEN pc' = "put_email" /\ UNCHANGED resp
                         ELSE Done(Response(200, "updated"))
                 ELSE /\ Done(Response(400, "error"))
                      /\ UNCHANGED users
    /\ UNCHANGED <<authUsers, minted, req, caller, callerRole, authUser, nreq,
                   links, otherVars>>

\* lines 155-158
PutSelectEmail ==
    /\ pc = "put_email"
    /\ calls' = calls \cup {"users.select.email"}
    /\ \E storeOk \in BOOLEAN :
         IF storeOk /\ LastSegment(req.path) \in DOMAIN users
         THEN pc' = "put_link" /\ UNCHANGED resp
         ELSE Done(Response(200, "updated"))
    /\ UNCHANGED <<users, authUsers, minted, req, caller, callerRole, authUser,
                   nreq, links, otherVars>>

\* lines 159-171: the link goes to the email just read
PutLink ==
    /\ pc = "put_link"
    /\ calls' = calls \cup {"auth.admin.generateLink"}
    /\ \E linkOk \in BOOLEAN :
         links' = Append(links, [email |-> users[LastSegment(req.path)].email,
                                 ok |-> linkOk])
    /\ Done(Response(200, "updated"))
    /\ UNCHANGED <<users, authUsers, minted, req, caller, callerRole, authUser,
                   nreq, otherVars>>

\* the directory store is row-level CRUD (spec section 6): it deletes a row
\* when asked to, and the deletion of an identity asks nothing of it
StoreOnIdentityDeleted(table, id) == table

\* lines 175-180: only the identity-provider record is deleted by the handler
DeleteUser ==
    /\ pc = "dispatch"
    /\ req.method = "DELETE"
    /\ calls' = calls \cup {"auth.admin.deleteUser"}
    /\ \E providerOk \in BOOLEAN :
         LET userId == LastSegment(req.path) IN
         IF providerOk /\ userId \in DOMAIN authUsers
         THEN /\ authUsers' = [id \in DOMAIN authUsers \ {userId} |-> authUsers[id]]
              /\ users' = StoreOnIdentityDeleted(users, userId)
              /\ Done(Response(200, "deleted"))
         ELSE /\ Done(Response(400, "error"))
              /\ UNCHANGED <<authUsers, users>>
    /\ UNCHANGED <<minted, req, caller, callerRole, authUser, nreq, links, otherVars>>

\* line 182
MethodNotAllowed ==
    /\ pc = "dispatch"
    /\ ~(req.method \in {"GET", "POST"} /\ EndsWithAdminUsers(req.path))
    /\ req.method \notin {"PUT", "DELETE"}
    /\ Done(Response(405, "method_not_allowed"))
    /\ UNCHANGED <<users, authUsers, minted, req, caller, callerRole, authUser,
                   calls, nreq, links, otherVars>>

(***************************************************************************)
(* Access decision functions, src/src/App.tsx lines 102-145                *)
(***************************************************************************)
Null == [isNull |-> TRUE]           \* user === null
IsNull(user) == user = Null

\* what a call gives back: a boolean, or a TypeError thrown on the way
Ret(b) == [threw |-> FALSE, value |-> b]
Thrown == [threw |-> TRUE, value |-> FALSE]

\* Array.prototype.includes
Includes(arr, x) == \E i \in 1..Len(arr) : arr[i] = x
\* roleName || ''
RoleOrEmpty(roleName) == IF roleName = NoRole THEN "" ELSE roleName

hasMenuAccessAdminBypass(user, menuId) ==
    IF IsNull(user) \/ ~user.is_active THEN Ret(FALSE)
    ELSE IF user.role = "admin" THEN Ret(TRUE)
    ELSE IF "menu_access" \notin DOMAIN user THEN Thrown
    ELSE Ret(Includes(user.menu_access, menuId))
\* lines 102-105
hasMenuAccess(user, menuId) ==
    IF IsNull(user) \/ ~user.is_active THEN Ret(FALSE)
    ELSE IF "menu_access" \notin DOMAIN user THEN Thrown
    ELSE Ret(Includes(user.menu_access, menuId))

\* lines 107-110: sub_menu_access[menuId]?.includes(subMenuId) || false
hasSubMenuAccess(user, menuId, subMenuId) ==
    IF IsNull(user) \/ ~user.is_active THEN Ret(FALSE)
    ELSE IF "sub_menu_access" \notin DOMAIN user THEN Thrown
    ELSE IF menuId \notin DOMAIN user.sub_menu_access THEN Ret(FALSE)
    ELSE Ret(Includes(user.sub_menu_access[menuId], subMenuId))

hasComponentAccessNoActiveCheck(user, componentId) ==
    IF IsNull(user) THEN Ret(FALSE)
    ELSE IF "component_access" \notin DOMAIN user THEN Thrown
    ELSE Ret(Includes(user.component_access, componentId))
\* lines 112-115
hasComponentAccess(user, componentId) ==
    IF IsNull(user) \/ ~user.is_active THEN Ret(FALSE)
    ELSE IF "component_access" \notin DOMAIN user THEN Thrown
    ELSE Ret(Includes(user.component_access, componentId))

AdminShortCircuitNever(user) == FALSE
\* line 121: user.roles?.name === 'admin'
AdminShortCircuit(user) == user.role = "admin"

ReportsExportRolesWithViewer == <<"admin", "member", "viewer">>
\* line 136
ReportsExportRoles == <<"admin", "member">>

\* lines 127-144: the switch on resource
ResourceRule(roleName, resource, action) ==
    CASE resource = "admin" -> roleName = "admin"
      [] resource = "dashboard" ->
            Includes(<<"admin", "member", "viewer">>, RoleOrEmpty(roleName))
      [] resource = "users" -> roleName = "admin"
      [] resource = "reports" ->
            IF action = "view"
            THEN Includes(<<"admin", "member", "viewer">>, RoleOrEmpty(roleName))
            ELSE IF action = "export"
            THEN Includes(ReportsExportRoles, RoleOrEmpty(roleName))
            ELSE FALSE
      [] resource = "transactions" ->
            IF action = "create"
            THEN Includes(<<"admin", "member">>, RoleOrEmpty(roleName))
            ELSE IF action = "approve"
            THEN roleName = "admin"
            ELSE FALSE
      [] OTHER -> FALSE

\* lines 117-145
hasPermission(user, resource, action) ==
    IF IsNull(user) \/ ~user.is_active THEN Ret(FALSE)
    ELSE IF AdminShortCircuit(user) THEN Ret(TRUE)
    ELSE Ret(ResourceRule(user.role, resource, action))

(***************************************************************************)
(* Principals and inputs the access functions are applied to               *)
(***************************************************************************)
RoleNames == {"admin", "member", "viewer", "guest", NoRole}
MenuIds == {"dashboard", "users"}
SubMenuKeys == {"users"}
SubMenuIds == {"list", "edit"}
ComponentIds == {"export_btn", "delete_btn"}
Resources == {"admin", "dashboard", "users", "reports", "transactions", "billing"}
Actions == {"access", "view", "export", "create", "approve", "read", "delete"}
Unknown == "unknown"

\* arrays over S of length at most MaxGrants
SeqsUpTo(S) == UNION {[1..n -> S] : n \in 0..MaxGrants}
\* objects whose keys are some of K, each with an array over S
MapsUpTo(K, S) == UNION {[D -> SeqsUpTo(S)] : D \in SUBSET K}

\* a User (src/src/types/database.ts lines 117-132) with its role join, or
\* a profile as fetchUserProfile (lines 218-230) loads it: no grant columns
Principals ==
    {Null}
    \cup {[is_active |-> a, role |-> r] : a \in BOOLEAN, r \in RoleNames}
    \cup {[is_active |-> a, role |-> r, menu_access |-> m, sub_menu_access |-> s,
           component_access |-> c] :
            a \in BOOLEAN, r \in RoleNames, m \in SeqsUpTo(MenuIds),
            s \in MapsUpTo(SubMenuKeys, SubMenuIds), c \in SeqsUpTo(ComponentIds)}

\* each behaviour draws a principal and makes one call; the functions are
\* pure, so a second call would see nothing the first did
NoQuery == [fn |-> "none", x |-> "", y |-> ""]
NoResult == Ret(FALSE)

CallHasPermission ==
    /\ query = NoQuery
    /\ \E resource \in Resources, action \in Actions :
         /\ query' = [fn |-> "hasPermission", x |-> resource, y |-> action]
         /\ result' = hasPermission(pUser, resource, action)
    /\ UNCHANGED <<pUser, serverVars, clientVars, moreVars>>

CallHasMenuAccess ==
    /\ query = NoQuery
    /\ \E menuId \in MenuIds \cup {Unknown} :
         /\ query' = [fn |-> "hasMenuAccess", x |-> menuId, y |-> ""]
         /\ result' = hasMenuAccess(pUser, menuId)
    /\ UNCHANGED <<pUser, serverVars, clientVars, moreVars>>

CallHasSubMenuAccess ==
    /\ query = NoQuery
    /\ \E menuId \in MenuIds \cup {Unknown}, subMenuId \in SubMenuIds \cup {Unknown} :
         /\ query' = [fn |-> "hasSubMenuAccess", x |-> menuId, y |-> subMenuId]
         /\ result' = hasSubMenuAccess(pUser, menuId, subMenuId)
    /\ UNCHANGED <<pUser, serverVars, clientVars, moreVars>>

CallHasComponentAccess ==
    /\ query = NoQuery
    /\ \E componentId \in ComponentIds \cup {Unknown} :
         /\ query' = [fn |-> "hasComponentAccess", x |-> componentId, y |-> ""]
         /\ result' = hasComponentAccess(pUser, componentId)
    /\ UNCHANGED <<pUser, serverVars, clientVars, moreVars>>

(***************************************************************************)
(* Credential policy, spec section 4.1 (utils/validation is not among the  *)
(* sources): the rules in their fixed order, one violation per failed rule *)
(***************************************************************************)
\* the characters of the passwords the model uses
Chars(pw) ==
    CASE pw = "Temp#1234" -> <<"T", "e", "m", "p", "#", "1", "2", "3", "4">>
      [] pw = "New#Pass1" -> <<"N", "e", "w", "#", "P", "a", "s", "s", "1">>
      [] pw = "abc12345" -> <<"a", "b", "c", "1", "2", "3", "4", "5">>
      [] pw = "Admin#2024" -> <<"A", "d", "m", "i", "n", "#", "2", "0", "2", "4">>
      [] pw = "View#2024" -> <<"V", "i", "e", "w", "#", "2", "0", "2", "4">>
      [] pw = "Password1!" -> <<"P", "a", "s", "s", "w", "o", "r", "d", "1", "!">>
      [] OTHER -> <<>>

UpperChars == {"A", "N", "P", "T", "V"}
LowerChars == {"a", "b", "c", "d", "e", "i", "m", "n", "o", "p", "r", "s", "w"}
DigitChars == {"0", "1", "2", "3", "4", "5"}
SymbolChars == {"#", "!"}
CommonPasswords == {"Password1!"}
MinPasswordLength == 8

HasChar(cs, class) == \E i \in 1..Len(cs) : cs[i] \in class
Violation(failed, text) == IF failed THEN <<text>> ELSE <<>>

\* evaluate(password) -> { valid, violations }
evaluate(pw) ==
    LET cs == Chars(pw)
        violations ==
            Violation(Len(cs) < MinPasswordLength, "length")
            \o Violation(~HasChar(cs, UpperChars), "uppercase")
            \o Violation(~HasChar(cs, LowerChars), "lowercase")
            \o Violation(~HasChar(cs, DigitChars), "digit")
            \o Violation(~HasChar(cs, SymbolChars), "symbol")
            \o Violation(pw \in CommonPasswords, "common")
    IN [valid |-> violations = <<>>, violations |-> violations]

(***************************************************************************)
(* Browser side: AuthContext.changePassword (src/src/types/database.ts     *)
(* lines 313-370) and ResetPasswordPage (src/unnamed/part_000)             *)
(***************************************************************************)
MaxTyped == 3       \* keystroke events on the reset page
MaxSubmits == 1     \* submissions of the reset form
MaxCalls == 1       \* changePassword calls in one behaviour

\* what the fields of the page can hold
TypedPasswords == {"", "New#Pass1", "abc12345"}

\* reset tokens a link can carry, and the user a token is good for
RecoveryOwner(t) == IF t = "rB" THEN "u2" ELSE NoUser
\* window.location: the access_token of the hash, the token of the query
Urls == {[hash |-> "", query |-> ""], [hash |-> "rB", query |-> ""],
         [hash |-> "expired", query |-> ""], [hash |-> "", query |-> "expired"]}

\* the profile fetchUserProfile selects (lines 218-230); id = NoUser is null
NullProfile == [id |-> NoUser, is_active |-> FALSE, needs_password_reset |-> FALSE,
                role |-> NoRole]
FetchUserProfile(id, storeOk) ==
    IF storeOk /\ id \in DOMAIN users
    THEN [id |-> id, is_active |-> users[id].is_active,
          needs_password_reset |-> users[id].needs_password_reset,
          role |-> RoleNameOf(users[id].role_id)]
    ELSE NullProfile

\* a changePassword call: its arguments, its position, its outcome; target,
\* oldPassword and oldFlag remember whose credential the call is about and
\* what it and the flag were when the call began; credentialSet tells that
\* the provider or the function has accepted the new password
NoCall == [pc |-> "idle", origin |-> "none", newPassword |-> "", clear |-> FALSE,
           token |-> "", resultUser |-> NoUser, outcome |-> "none", error |-> "none",
           target |-> NoUser, oldPassword |-> "", oldFlag |-> FALSE,
           credentialSet |-> FALSE, sessionUser |-> NoUser]
NoValidation == [known |-> FALSE, isValid |-> FALSE]
NoPage == [url |-> [hash |-> "", query |-> ""], loaded |-> FALSE, accessToken |-> "",
           password |-> "", confirmPassword |-> "", validation |-> NoValidation,
           message |-> "none", isSuccess |-> FALSE, isLoading |-> FALSE,
           typed |-> 0, submits |-> 0]
NoContext == [user |-> NullProfile, loading |-> FALSE, error |-> "none", ncalls |-> 0]

\* the errors a call can end with, by the message they carry:
\*   session_missing    supabase.auth.updateUser without a session
\*   auth_expired       the provider refuses the session (expired or invalid JWT)
\*   auth_error         any other refusal of the provider (its own password
\*                      rules, a fault)
\*   store_error        the error of the users update
\*   no_active_session  getAuthHeaders (part_001 line 115)
\*   api_error          ApiError of handleResponse (part_001 lines 12-20)
CredentialErrors == {"session_missing", "auth_expired", "auth_error",
                     "no_active_session", "api_error"}
ProviderRefusals == {"auth_expired", "auth_error"}

\* neither a page nor a changePassword call: the browser side at rest
ClientIdle ==
    /\ session = NoUser
    /\ ctx = NoContext
    /\ cp = NoCall
    /\ page = NoPage
    /\ pending = {}

\* lines 319-321 and 325: setLoading(true), setError(null), then the branch
\* on accessToken
CpBegin(origin, newPassword, clear, token) ==
    /\ cp' = [NoCall EXCEPT
                !.pc = IF token # "" THEN "api" ELSE "update_user",
                !.origin = origin,
                !.newPassword = newPassword,
                !.clear = clear,
                !.token = token,
                !.target = IF session \in DOMAIN authUsers THEN session ELSE NoUser,
                !.oldPassword = IF session \in DOMAIN authUsers
                                THEN authUsers[session].password ELSE "",
                !.oldFlag = IF session \in DOMAIN users
                            THEN users[session].needs_password_reset ELSE FALSE]
    /\ ctx' = [ctx EXCEPT !.loading = TRUE, !.error = "none", !.ncalls = @ + 1]

\* line 346: the users update runs when asked for and the result names a user
FlagStepDue(c) == c.clear /\ c.resultUser # NoUser

\* lines 360-361 and 366-369: return result; finally setLoading(false)
CpReturn(c, user) ==
    /\ cp' = [c EXCEPT !.pc = "done", !.outcome = "success"]
    /\ ctx' = [ctx EXCEPT !.loading = FALSE, !.user = user]

\* lines 362-369: setError(err.message), throw err; finally setLoading(false)
CpThrow(err) ==
    /\ cp' = [cp EXCEPT !.pc = "done", !.outcome = "error", !.error = err]
    /\ ctx' = [ctx EXCEPT !.loading = FALSE, !.error = err]

\* lines 336-339, the logged-in flow: supabase.auth.updateUser({password})
\* acts on the session the browser holds
CpUpdateUser ==
    /\ cp.pc = "update_user"
    /\ IF session = NoUser
       THEN CpThrow("session_missing") /\ UNCHANGED authUsers
       ELSE \E refusal \in ProviderRefusals \cup {"none"} :
              IF refusal = "none" /\ session \in DOMAIN authUsers
              THEN /\ authUsers' = [authUsers EXCEPT ![session].password = cp.newPassword]
                   /\ cp' = [cp EXCEPT !.pc = "refresh", !.resultUser = session,
                                       !.credentialSet = TRUE]
                   /\ UNCHANGED ctx
              ELSE /\ CpThrow(IF refusal = "none" THEN "auth_error" ELSE refusal)
                   /\ UNCHANGED authUsers
    /\ UNCHANGED <<users, session, page, pending,
                   serverRest, accessVars, moreVars>>

\* lines 342 and 378: refreshUser asks the provider for the user of the
\* session; a failure is not thrown
CpRefresh ==
    /\ cp.pc = "refresh"
    /\ \E providerOk \in BOOLEAN :
         cp' = [cp EXCEPT !.pc = "refresh_profile",
                          !.sessionUser = IF providerOk THEN session ELSE NoUser]
    /\ UNCHANGED <<users, authUsers, session, ctx, page, pending,
                   serverRest, accessVars, moreVars>>

\* lines 379-382: the profile of that user is fetched and set, null when the
\* fetch fails; then the test of line 346
CpRefreshProfile ==
    /\ cp.pc = "refresh_profile"
    /\ \E storeOk \in BOOLEAN :
         LET profile == IF cp.sessionUser # NoUser
                        THEN FetchUserProfile(cp.sessionUser, storeOk) ELSE ctx.user
         IN IF FlagStepDue(cp)
            THEN /\ cp' = [cp EXCEPT !.pc = "clear_flag"]
                 /\ ctx' = [ctx EXCEPT !.user = profile]
            ELSE CpReturn(cp, profile)
    /\ UNCHANGED <<users, authUsers, session, page, pending,
                   serverRest, accessVars, moreVars>>

\* the update-password function behind authApi.updatePassword: it checks the
\* new password against the policy, sets the credential of the bearer and,
\* when asked to, clears the flag, as one unit (spec section 4.3)
UpdatePasswordFunction(principal, newPassword, clear, fnOk) ==
    IF fnOk /\ evaluate(newPassword).valid /\ principal \in DOMAIN authUsers
    THEN [ok |-> TRUE,
          authUsers |-> [authUsers EXCEPT ![principal].password = newPassword],
          users |-> IF clear /\ principal \in DOMAIN users
                    THEN [users EXCEPT ![principal].needs_password_reset = FALSE]
                    ELSE users]
    ELSE [ok |-> FALSE, authUsers |-> authUsers, users |-> users]

\* line 329, the token flow: authApi.updatePassword (part_001 lines 84-97)
\* takes two parameters, so the token is dropped and the bearer is the
\* session of getAuthHeaders; the answer is { message, user: any }
CpApi ==
    /\ cp.pc = "api"
    /\ IF session = NoUser
       THEN CpThrow("no_active_session") /\ UNCHANGED <<users, authUsers>>
       ELSE \E fnOk \in BOOLEAN, withUser \in BOOLEAN :
              LET r == UpdatePasswordFunction(session, cp.newPassword, cp.clear, fnOk)
                  c == [cp EXCEPT !.resultUser = IF withUser THEN session ELSE NoUser,
                                  !.credentialSet = TRUE]
              IN IF r.ok
                 THEN /\ authUsers' = r.authUsers
                      /\ users' = r.users
                      /\ IF FlagStepDue(c)
                         THEN cp' = [c EXCEPT !.pc = "clear_flag"] /\ UNCHANGED ctx
                         ELSE CpReturn(c, ctx.user)
                 ELSE CpThrow("api_error") /\ UNCHANGED <<users, authUsers>>
    /\ UNCHANGED <<session, page, pending,
                   serverRest, accessVars, moreVars>>

\* lines 346-358: update users set needs_password_reset = false where id;
\* an update that matches no row is no error
CpClearFlag ==
    /\ cp.pc = "clear_flag"
    /\ \E storeOk \in BOOLEAN :
         IF storeOk
         THEN /\ users' = IF cp.resultUser \in DOMAIN users
                          THEN [users EXCEPT ![cp.resultUser].needs_password_reset = FALSE]
                          ELSE users
              /\ CpReturn(cp, ctx.user)
         ELSE CpThrow("store_error") /\ UNCHANGED users
    /\ UNCHANGED <<authUsers, session, page, pending,
                   serverRest, accessVars, moreVars>>

\* a caller other than the reset page (the context hands changePassword to
\* every component), on a route where the reset page is not mounted
CallChangePassword ==
    /\ cp.pc \in {"idle", "done"}
    /\ ~page.loaded
    /\ ctx.ncalls < MaxCalls
    /\ \E p \in TypedPasswords \ {""}, clear \in BOOLEAN, token \in {"", "rB"} :
         CpBegin("other", p, clear, token)
    /\ UNCHANGED <<users, authUsers, session, page, pending,
                   serverRest, accessVars, moreVars>>

\* part_000 lines 33-61: extractToken; createClient (part_001 line 108) has
\* taken up the session of a recovery link whose hash token is good
PageLoad ==
    /\ ~page.loaded
    /\ cp.pc = "idle"
    /\ LET token == IF page.url.hash # "" THEN page.url.hash ELSE page.url.query
       IN page' = [page EXCEPT !.loaded = TRUE,
                               !.accessToken = token,
                               !.message = IF token = "" THEN "invalid_or_missing_link"
                                           ELSE @]
    /\ session' = IF RecoveryOwner(page.url.hash) # NoUser
                  THEN RecoveryOwner(page.url.hash) ELSE session
    /\ UNCHANGED <<users, authUsers, ctx, cp, pending,
                   serverRest, accessVars, moreVars>>

\* part_000 lines 63-70: a new value of the password field starts a
\* validation, or clears the result when the field is empty
TypePassword ==
    /\ page.loaded
    /\ page.typed < MaxTyped
    /\ \E p \in TypedPasswords \ {page.password} :
         /\ page' = [page EXCEPT !.password = p, !.typed = @ + 1,
                                 !.validation = IF p = "" THEN NoValidation ELSE @]
         /\ pending' = IF p = "" THEN pending ELSE pending \cup {p}
    /\ UNCHANGED <<users, authUsers, session, ctx, cp,
                   serverRest, accessVars, moreVars>>

TypeConfirm ==
    /\ page.loaded
    /\ page.typed < MaxTyped
    /\ \E p \in TypedPasswords \ {page.confirmPassword} :
         page' = [page EXCEPT !.confirmPassword = p, !.typed = @ + 1]
    /\ UNCHANGED <<users, authUsers, session, ctx, cp, pending,
                   serverRest, accessVars, moreVars>>

\* part_000 line 65: .then(result => setPasswordValidation(result)), for any
\* validation still under way
ValidationDone ==
    /\ \E p \in pending :
         /\ page' = [page EXCEPT !.validation =
                                     [known |-> TRUE, isValid |-> evaluate(p).valid]]
         /\ pending' = pending \ {p}
    /\ UNCHANGED <<users, authUsers, session, ctx, cp,
                   serverRest, accessVars, moreVars>>

\* part_000 line 242: the submit button is disabled while the call runs,
\* while a field is empty, the last validation is not valid or no token
\* was extracted
SubmitEnabled ==
    /\ ~page.isLoading
    /\ page.password # ""
    /\ page.confirmPassword # ""
    /\ page.validation.isValid
    /\ page.accessToken # ""

\* part_000 lines 73-101: handleSubmit up to the call of changePassword,
\* which gets the password and true and no token
Submit ==
    /\ page.loaded
    /\ SubmitEnabled
    /\ cp.pc \in {"idle", "done"}
    /\ page.submits < MaxSubmits
    /\ ctx.ncalls < MaxCalls
    /\ LET refused ==
              IF page.password # page.confirmPassword THEN "mismatch"
              ELSE IF ~page.validation.isValid THEN "weak"
              ELSE IF page.accessToken = "" THEN "no_token"
              ELSE "none"
       IN /\ page' = [page EXCEPT !.message = refused, !.isSuccess = FALSE,
                                  !.isLoading = (refused = "none"),
                                  !.submits = @ + 1]
          /\ IF refused = "none"
             THEN CpBegin("reset", page.password, TRUE, "")
             ELSE UNCHANGED <<cp, ctx>>
    /\ UNCHANGED <<users, authUsers, session, pending,
                   serverRest, accessVars, moreVars>>

\* part_000 lines 115-116: the messages taken for a bad link
SaysExpiredOrInvalid(err) == err = "auth_expired"

\* part_000 lines 103-128: handleSubmit after changePassword has ended
SubmitEnd ==
    /\ page.isLoading
    /\ cp.pc = "done"
    /\ cp.origin = "reset"
    /\ page' = IF cp.outcome = "success"
               THEN [page EXCEPT !.message = "success", !.isSuccess = TRUE,
                                 !.password = "", !.confirmPassword = "",
                                 !.validation = NoValidation, !.isLoading = FALSE]
               ELSE [page EXCEPT !.message = IF SaysExpiredOrInvalid(cp.error)
                                             THEN "expired_or_invalid" ELSE cp.error,
                                 !.isSuccess = FALSE, !.isLoading = FALSE]
    /\ UNCHANGED <<users, authUsers, session, ctx, cp, pending,
                   serverRest, accessVars, moreVars>>

(***************************************************************************)
(* Browser side: the rest of the AuthProvider (src/src/types/database.ts   *)
(* lines 209-403): init, the auth listener, signIn, signOut, refreshUser,  *)
(* sendPasswordResetEmail                                                  *)
(***************************************************************************)
MaxAuthCalls == 3   \* AuthContext calls in one behaviour
MaxEvents == 1      \* listener invocations and refreshUser calls

\* the locals of a call; email and password are gone when it has returned
NoSignIn == [pc |-> "idle", email |-> "", password |-> "", user |-> NoUser,
             outcome |-> "none", error |-> "none"]
NoSignOut == [pc |-> "idle"]
NoSend == [pc |-> "idle", email |-> "", outcome |-> "none"]
NoCounts == [calls |-> 0, events |-> 0]

\* what the sign-in form and the forgot-password form can carry
SignInEmails == {"a@x", "b@x"}
SignInPasswords == {"Admin#2024", "View#2024"}

\* the identity provider's signInWithPassword: the user whose email and
\* stored credential these are, or NoUser
SignInWithPasswordUnlessResetPending(email, password, providerOk) ==
    LET matches == {id \in DOMAIN authUsers : /\ authUsers[id].email = email
                                              /\ authUsers[id].password = password}
    IN IF providerOk /\ matches # {} /\ resets = 0
       THEN CHOOSE id \in matches : TRUE ELSE NoUser
SignInWithPassword(email, password, providerOk) ==
    LET matches == {id \in DOMAIN authUsers : /\ authUsers[id].email = email
                                              /\ authUsers[id].password = password}
    IN IF providerOk /\ matches # {} THEN CHOOSE id \in matches : TRUE ELSE NoUser

Task(kind, id) == [kind |-> kind, id |-> id]

\* setLoading(false) with setError(message) of a catch / finally pair
Failed(message) == [ctx EXCEPT !.loading = FALSE, !.error = message]

\* lines 267-269: signIn(email, password): setLoading(true), setError(null)
SignInBegin ==
    /\ si.pc \in {"idle", "done"}
    /\ nauth.calls < MaxAuthCalls
    /\ \E email \in SignInEmails, password \in SignInPasswords :
         si' = [NoSignIn EXCEPT !.pc = "sign_in", !.email = email,
                                !.password = password]
    /\ ctx' = [ctx EXCEPT !.loading = TRUE, !.error = "none"]
    /\ nauth' = [nauth EXCEPT !.calls = @ + 1]
    /\ UNCHANGED <<users, authUsers, session, cp, page, pending, so, sr, tasks,
                   resets, form, puts, serverRest, accessVars>>

\* lines 271-272: signInWithPassword; when it succeeds the client holds the
\* session and tells the listener of lines 247-255 (SIGNED_IN)
SignInProvider ==
    /\ si.pc = "sign_in"
    /\ \E providerOk \in BOOLEAN :
         LET u == SignInWithPassword(si.email, si.password, providerOk)
             err == IF providerOk THEN "invalid_credentials" ELSE "auth_error"
         IN IF u = NoUser
            THEN /\ si' = [NoSignIn EXCEPT !.pc = "done", !.outcome = "error",
                                           !.error = err]
                 /\ ctx' = Failed(err)
                 /\ UNCHANGED <<session, tasks>>
            ELSE /\ si' = [si EXCEPT !.pc = "profile", !.user = u]
                 /\ session' = u
                 /\ tasks' = tasks \cup {Task("listener", u)}
                 /\ UNCHANGED ctx
    /\ UNCHANGED <<users, authUsers, cp, page, pending, so, sr, resets, nauth,
                   form, puts, serverRest, accessVars>>

\* lines 274-282 and 283-288: the profile; an inactive or missing one throws
SignInProfile ==
    /\ si.pc = "profile"
    /\ \E storeOk \in BOOLEAN :
         LET profile == FetchUserProfile(si.user, storeOk)
         IN IF ~profile.is_active
            THEN /\ si' = [NoSignIn EXCEPT !.pc = "done", !.user = si.user,
                                           !.outcome = "error",
                                           !.error = "Account is inactive"]
                 /\ ctx' = Failed("Account is inactive")
            ELSE /\ si' = [NoSignIn EXCEPT !.pc = "done", !.user = si.user,
                                           !.outcome = "success"]
                 /\ ctx' = [ctx EXCEPT !.user = profile, !.loading = FALSE]
    /\ UNCHANGED <<users, authUsers, session, cp, page, pending, so, sr, tasks,
                   resets, nauth, form, puts, serverRest, accessVars>>

\* line 295: signOut: setLoading(true)
SignOutBegin ==
    /\ so.pc \in {"idle", "done"}
    /\ nauth.calls < MaxAuthCalls
    /\ so' = [pc |-> "sign_out"]
    /\ ctx' = [ctx EXCEPT !.loading = TRUE]
    /\ nauth' = [nauth EXCEPT !.calls = @ + 1]
    /\ UNCHANGED <<users, authUsers, session, cp, page, pending, si, sr, tasks,
                   resets, form, puts, serverRest, accessVars>>

\* lines 297-304: supabase.auth.signOut answers (its error is not looked
\* at), setUser(null), setLoading(false)
SignOutProvider ==
    /\ so.pc = "sign_out"
    /\ \E providerOk \in BOOLEAN :
         session' = IF providerOk THEN NoUser ELSE session
    /\ so' = [pc |-> "done"]
    /\ ctx' = [ctx EXCEPT !.user = NullProfile, !.loading = FALSE]
    /\ UNCHANGED <<users, authUsers, cp, page, pending, si, sr, tasks, resets,
                   nauth, form, puts, serverRest, accessVars>>

\* lines 389-391: sendPasswordResetEmail(email)
SendBegin ==
    /\ sr.pc \in {"idle", "done"}
    /\ nauth.calls < MaxAuthCalls
    /\ \E email \in SignInEmails : sr' = [NoSend EXCEPT !.pc = "send", !.email = email]
    /\ ctx' = [ctx EXCEPT !.loading = TRUE, !.error = "none"]
    /\ nauth' = [nauth EXCEPT !.calls = @ + 1]
    /\ UNCHANGED <<users, authUsers, session, cp, page, pending, si, so, tasks,
                   resets, form, puts, serverRest, accessVars>>

\* lines 393-402: resetPasswordForEmail; the provider issues a token
SendProvider ==
    /\ sr.pc = "send"
    /\ \E providerOk \in BOOLEAN :
         IF providerOk
         THEN /\ resets' = resets + 1
              /\ sr' = [NoSend EXCEPT !.pc = "done", !.outcome = "success"]
              /\ ctx' = [ctx EXCEPT !.loading = FALSE]
         ELSE /\ sr' = [NoSend EXCEPT !.pc = "done", !.outcome = "error"]
              /\ ctx' = Failed("auth_error")
              /\ UNCHANGED resets
    /\ UNCHANGED <<users, authUsers, session, cp, page, pending, si, so, tasks,
                   nauth, form, puts, serverRest, accessVars>>

\* a component of the signed-in application changes the password and has
\* the flag cleared (logged-in flow of changePassword)
AuthChangePassword ==
    /\ cp.pc \in {"idle", "done"}
    /\ nauth.calls < MaxAuthCalls
    /\ nauth' = [nauth EXCEPT !.calls = @ + 1]
    /\ CpBegin("other", "New#Pass1", TRUE, "")
    /\ UNCHANGED <<users, authUsers, session, page, pending, si, so, sr, tasks,
                   resets, form, puts, serverRest, accessVars>>

\* lines 238-243: init after getSession has answered
InitSession ==
    /\ Task("init_session", NoUser) \in tasks
    /\ IF session # NoUser
       THEN /\ tasks' = (tasks \ {Task("init_session", NoUser)})
                            \cup {Task("init", session)}
            /\ UNCHANGED ctx
       ELSE /\ tasks' = tasks \ {Task("init_session", NoUser)}
            /\ ctx' = [ctx EXCEPT !.loading = FALSE]
    /\ UNCHANGED <<users, authUsers, session, cp, page, pending, si, so, sr,
                   resets, nauth, form, puts, serverRest, accessVars>>

\* lines 247-255: the listener is told of the session at other times too
\* (the session found at start, a refreshed token)
ListenerCalled ==
    /\ nauth.events < MaxEvents
    /\ nauth' = [nauth EXCEPT !.events = @ + 1]
    /\ IF session # NoUser
       THEN tasks' = tasks \cup {Task("listener", session)} /\ UNCHANGED ctx
       ELSE ctx' = [ctx EXCEPT !.user = NullProfile] /\ UNCHANGED tasks
    /\ UNCHANGED <<users, authUsers, session, cp, page, pending, si, so, sr,
                   resets, form, puts, serverRest, accessVars>>

\* lines 377-379: refreshUser called by a component, after getUser answered
RefreshUser ==
    /\ nauth.events < MaxEvents
    /\ nauth' = [nauth EXCEPT !.events = @ + 1]
    /\ \E providerOk \in BOOLEAN :
         tasks' = IF providerOk /\ session # NoUser
                  THEN tasks \cup {Task("refresh", session)} ELSE tasks
    /\ UNCHANGED <<users, authUsers, session, ctx, cp, page, pending, si, so, sr,
                   resets, form, puts, serverRest, accessVars>>

\* lines 240-243, 249-250, 380-381: fetchUserProfile has answered and the
\* callback sets the user; init then ends the loading
ProfileFetched ==
    /\ \E t \in tasks, storeOk \in BOOLEAN :
         /\ t.kind \in {"init", "listener", "refresh"}
         /\ tasks' = tasks \ {t}
         /\ ctx' = [ctx EXCEPT !.user = FetchUserProfile(t.id, storeOk),
                               !.loading = IF t.kind = "init" THEN FALSE ELSE @]
    /\ UNCHANGED <<users, authUsers, session, cp, page, pending, si, so, sr,
                   resets, nauth, form, puts, serverRest, accessVars>>

(***************************************************************************)
(* EditUserModal (src/src/pages/AdminUsers.tsx lines 332-356) and PUT      *)
(* handlers running side by side                                           *)
(***************************************************************************)
Handlers == {1, 2}
NoForm == [open |-> FALSE, id |-> NoUser, data |-> NoBody, touched |-> {}]
\* a PUT in a handler; wrote numbers the writes in their order and sawFlag
\* remembers the stored flag of the principal when the form was submitted
NoPut == [pc |-> "idle", id |-> NoUser, body |-> NoBody, fromForm |-> FALSE,
          status |-> 0, wrote |-> 0, sawFlag |-> FALSE]

\* no AuthContext call, no callback, no edit form, no PUT under way
MoreIdle ==
    /\ si = NoSignIn
    /\ so = NoSignOut
    /\ sr = NoSend
    /\ tasks = {}
    /\ resets = 0
    /\ nauth = NoCounts
    /\ form = NoForm
    /\ puts = [h \in Handlers |-> NoPut]

\* lines 343-351: the form starts as a copy of the seven fields of the user
\* the page holds
FormData(user) ==
    [full_name |-> user.full_name,
     role_id |-> IF user.role_id = NullRoleId THEN "" ELSE user.role_id,
     menu_access |-> user.menu_access,
     sub_menu_access |-> user.sub_menu_access,
     component_access |-> user.component_access,
     is_active |-> user.is_active,
     needs_password_reset |-> user.needs_password_reset]

\* the inputs of the modal the administrator changes (lines 387, 400, 409);
\* the name is left as loaded
FormInputs == {"role_id", "is_active", "needs_password_reset"}

\* AdminUsers.tsx lines 211-217 and 343-351: the administrator opens the
\* modal on a principal; the list the page holds is the one just loaded
EditOpen ==
    /\ form = NoForm
    /\ form' = [open |-> TRUE, id |-> "u2", data |-> FormData(users["u2"]),
                touched |-> {}]
    /\ UNCHANGED <<users, authUsers, session, ctx, cp, page, pending, si, so, sr,
                   tasks, resets, nauth, puts, serverRest, accessVars>>

\* lines 387, 400, 409: onChange of an input, each changed once at most
EditChange ==
    /\ form.open
    /\ \E f \in FormInputs \ form.touched :
         LET v == IF f = "role_id" THEN "r_admin" ELSE ~form.data[f]
         IN form' = [form EXCEPT !.data = [@ EXCEPT ![f] = v],
                                 !.touched = @ \cup {f}]
    /\ UNCHANGED <<users, authUsers, session, ctx, cp, page, pending, si, so, sr,
                   tasks, resets, nauth, puts, serverRest, accessVars>>

\* lines 353-356, 56-60 and part_001 lines 44-51: the whole formData is the
\* body of PUT /admin-users/:id
EditSubmit ==
    /\ form.open
    /\ \E h \in Handlers :
         /\ puts[h].pc = "idle"
         /\ puts' = [puts EXCEPT ![h] = [NoPut EXCEPT !.pc = "update", !.id = form.id,
                                                      !.body = form.data,
                                                      !.fromForm = TRUE,
                                                      !.sawFlag =
                                                        users[form.id].needs_password_reset]]
    /\ form' = [form EXCEPT !.open = FALSE]
    /\ UNCHANGED <<users, authUsers, session, ctx, cp, page, pending, si, so, sr,
                   tasks, resets, nauth, serverRest, accessVars>>

\* database.ts lines 313-325: the principal the form is about changes the
\* password in the signed-in application, which has the flag cleared
PrincipalChangesPassword ==
    /\ cp.pc = "idle"
    /\ CpBegin("other", "New#Pass1", TRUE, "")
    /\ UNCHANGED <<users, authUsers, session, page, pending, si, so, sr, tasks,
                   resets, nauth, form, puts, serverRest, accessVars>>

\* index.ts lines 136-139: a PUT of another client, about the same
\* principal, reaches a handler
PutArrives ==
    /\ \E h \in Handlers, id \in {"u2"}, body \in PutBodies :
         /\ puts[h].pc = "idle"
         /\ puts' = [puts EXCEPT ![h] = [NoPut EXCEPT !.pc = "update", !.id = id,
                                                      !.body = body]]
    /\ UNCHANGED <<users, authUsers, session, ctx, cp, page, pending, si, so, sr,
                   tasks, resets, nauth, form, serverRest, accessVars>>

\* index.ts lines 141-152: the one update of the handler
PutWrite ==
    /\ \E h \in Handlers, storeOk \in BOOLEAN :
         /\ puts[h].pc = "update"
         /\ IF storeOk /\ puts[h].id \in DOMAIN users
            THEN /\ users' = [users EXCEPT ![puts[h].id] = UpdatedRow(@, puts[h].body)]
                 /\ puts' = [puts EXCEPT
                      ![h].wrote = 1 + Cardinality({g \in Handlers : puts[g].wrote > 0}),
                      ![h].status = IF Truthy(puts[h].body, "needs_password_reset")
                                    THEN 0 ELSE 200,
                      ![h].pc = IF Truthy(puts[h].body, "needs_password_reset")
                                THEN "email" ELSE "done"]
            ELSE /\ puts' = [puts EXCEPT ![h].pc = "done", ![h].status = 400]
                 /\ UNCHANGED users
    /\ UNCHANGED <<authUsers, session, ctx, cp, page, pending, si, so, sr, tasks,
                   resets, nauth, form, serverRest, accessVars>>

\* index.ts lines 155-158
PutEmail ==
    /\ \E h \in Handlers, storeOk \in BOOLEAN :
         /\ puts[h].pc = "email"
         /\ puts' = IF storeOk /\ puts[h].id \in DOMAIN users
                    THEN [puts EXCEPT ![h].pc = "link"]
                    ELSE [puts EXCEPT ![h].pc = "done", ![h].status = 200]
    /\ UNCHANGED <<users, authUsers, session, ctx, cp, page, pending, si, so, sr,
                   tasks, resets, nauth, form, serverRest, accessVars>>

\* index.ts lines 159-171
PutNotify ==
    /\ \E h \in Handlers, linkOk \in BOOLEAN :
         /\ puts[h].pc = "link"
         /\ links' = Append(links, [email |-> users[puts[h].id].email, ok |-> linkOk])
         /\ puts' = [puts EXCEPT ![h].pc = "done", ![h].status = 200]
    /\ UNCHANGED <<users, authUsers, session, ctx, cp, page, pending, si, so, sr,
                   tasks, resets, nauth, form, minted, pc, req, caller, callerRole,
                   authUser, resp, calls, nreq, accessVars>>

(***************************************************************************)
(* Specification of the admin-users function                               *)
(***************************************************************************)

InitUsers ==
    ("u1" :> [id |-> "u1", email |-> "a@x", full_name |-> "Admin", role_id |-> "r_admin",
              menu_access |-> <<"users">>, sub_menu_access |-> <<>>,
              component_access |-> <<>>, is_active |-> TRUE,
              needs_password_reset |-> FALSE])
    @@ ("u2" :> [id |-> "u2", email |-> "b@x", full_name |-> "Viewer", role_id |-> "r_viewer",
                 menu_access |-> <<>>, sub_menu_access |-> <<>>,
                 component_access |-> <<>>, is_active |-> TRUE,
                 needs_password_reset |-> FALSE])

InitAuthUsers ==
    ("u1" :> [email |-> "a@x", password |-> "Admin#2024"])
    @@ ("u2" :> [email |-> "b@x", password |-> "View#2024"])

ServerInit ==
    /\ users = InitUsers
    /\ authUsers = InitAuthUsers
    /\ minted = {"u1", "u2"}
    /\ pc = "idle"
    /\ req = NoRequest
    /\ caller = NoUser
    /\ callerRole = NoRole
    /\ authUser = NoUser
    /\ resp = NoResponse
    /\ calls = {}
    /\ nreq = 0
    /\ links = <<>>

Init ==
    /\ ServerInit
    /\ pUser = Null
    /\ query = NoQuery
    /\ result = NoResult
    /\ ClientIdle
    /\ MoreIdle

Next ==
    \/ Receive
    \/ Preflight
    \/ Authenticate
    \/ Authorize
    \/ ListUsers
    \/ PostCreateUser
    \/ PostInsert
    \/ PostRollback
    \/ PostLink
    \/ PutUpdate
    \/ PutSelectEmail
    \/ PutLink
    \/ DeleteUser
    \/ MethodNotAllowed

Spec == Init /\ [][Next]_vars


(***************************************************************************)
(* Specification of the access decision functions                          *)
(***************************************************************************)
AccessInit ==
    /\ ServerInit
    /\ pUser \in Principals
    /\ query = NoQuery
    /\ result = NoResult
    /\ ClientIdle
    /\ MoreIdle

AccessNext ==
    \/ CallHasPermission
    \/ CallHasMenuAccess
    \/ CallHasSubMenuAccess
    \/ CallHasComponentAccess

SpecAccess == AccessInit /\ [][AccessNext]_vars

(***************************************************************************)
(* Specification of the browser side: the reset page and changePassword    *)
(***************************************************************************)
\* u2 has been told to change the password
ResetUsers == [InitUsers EXCEPT !["u2"].needs_password_reset = TRUE]
\* the session the browser holds when the link is opened
InitSessions == {NoUser, "u1", "u2"}

ResetInit ==
    /\ users = ResetUsers
    /\ authUsers = InitAuthUsers
    /\ minted = DOMAIN InitAuthUsers
    /\ pc = "idle"
    /\ req = NoRequest
    /\ caller = NoUser
    /\ callerRole = NoRole
    /\ authUser = NoUser
    /\ resp = NoResponse
    /\ calls = {}
    /\ nreq = 0
    /\ links = <<>>
    /\ pUser = Null
    /\ query = NoQuery
    /\ result = NoResult
    /\ session \in InitSessions
    /\ ctx = [NoContext EXCEPT !.user = IF session = NoUser THEN NullProfile
                                        ELSE [id |-> session,
                                              is_active |-> ResetUsers[session].is_active,
                                              needs_password_reset |->
                                                  ResetUsers[session].needs_password_reset,
                                              role |-> RoleNameOf(ResetUsers[session].role_id)]]
    /\ cp = NoCall
    /\ \E u \in Urls : page = [NoPage EXCEPT !.url = u]
    /\ pending = {}
    /\ MoreIdle

ResetNext ==
    \/ PageLoad
    \/ TypePassword
    \/ TypeConfirm
    \/ ValidationDone
    \/ Submit
    \/ SubmitEnd
    \/ CallChangePassword
    \/ CpUpdateUser
    \/ CpRefresh
    \/ CpRefreshProfile
    \/ CpApi
    \/ CpClearFlag

SpecReset == ResetInit /\ [][ResetNext]_vars

(***************************************************************************)
(* Specification of the AuthProvider                                       *)
(***************************************************************************)
\* u2 has been deactivated
AuthUsers == [InitUsers EXCEPT !["u2"].is_active = FALSE]
\* the session the browser holds when the provider is mounted
AuthSessions == {NoUser, "u1"}

AuthInit ==
    /\ users = AuthUsers
    /\ authUsers = InitAuthUsers
    /\ minted = DOMAIN InitAuthUsers
    /\ pc = "idle"
    /\ req = NoRequest
    /\ caller = NoUser
    /\ callerRole = NoRole
    /\ authUser = NoUser
    /\ resp = NoResponse
    /\ calls = {}
    /\ nreq = 0
    /\ links = <<>>
    /\ pUser = Null
    /\ query = NoQuery
    /\ result = NoResult
    /\ session \in AuthSessions
    /\ ctx = [NoContext EXCEPT !.loading = TRUE]
    /\ cp = NoCall
    /\ page = NoPage
    /\ pending = {}
    /\ si = NoSignIn
    /\ so = NoSignOut
    /\ sr = NoSend
    /\ tasks = {Task("init_session", NoUser)}
    /\ resets = 0
    /\ nauth = NoCounts
    /\ form = NoForm
    /\ puts = [h \in Handlers |-> NoPut]

AuthNext ==
    \/ InitSession
    \/ ListenerCalled
    \/ RefreshUser
    \/ ProfileFetched
    \/ SignInBegin
    \/ SignInProvider
    \/ SignInProfile
    \/ SignOutBegin
    \/ SignOutProvider
    \/ SendBegin
    \/ SendProvider

SpecAuth == AuthInit /\ [][AuthNext]_vars

\* the same with changePassword among the calls
LoadingNext ==
    \/ AuthNext
    \/ AuthChangePassword
    \/ CpUpdateUser
    \/ CpRefresh
    \/ CpRefreshProfile
    \/ CpClearFlag

SpecLoading == AuthInit /\ [][LoadingNext]_vars

(***************************************************************************)
(* Specification of an administrator's edit, PUT requests side by side    *)
(* and the principal's own password change                                 *)
(***************************************************************************)
PutInit ==
    /\ users = ResetUsers
    /\ authUsers = InitAuthUsers
    /\ minted = DOMAIN InitAuthUsers
    /\ pc = "idle"
    /\ req = NoRequest
    /\ caller = NoUser
    /\ callerRole = NoRole
    /\ authUser = NoUser
    /\ resp = NoResponse
    /\ calls = {}
    /\ nreq = 0
    /\ links = <<>>
    /\ pUser = Null
    /\ query = NoQuery
    /\ result = NoResult
    /\ session = "u2"
    /\ ctx = [NoContext EXCEPT !.user = FetchUserProfile("u2", TRUE)]
    /\ cp = NoCall
    /\ page = NoPage
    /\ pending = {}
    /\ MoreIdle

PutNext ==
    \/ EditOpen
    \/ EditChange
    \/ EditSubmit
    \/ PutArrives
    \/ PutWrite
    \/ PutEmail
    \/ PutNotify
    \/ PrincipalChangesPassword
    \/ CpUpdateUser
    \/ CpRefresh
    \/ CpRefreshProfile
    \/ CpClearFlag

SpecPut == PutInit /\ [][PutNext]_vars



(***************************************************************************)
(* The guard of the admin-users function                                   *)
(***************************************************************************)
OperationPcs == {"dispatch", "post_insert", "post_rollback", "post_link",
                 "put_email", "put_link"}

\* the identity provider accepted the bearer credential of this request and
\* the role resolved for that principal was admin
GuardPassed ==
    /\ ~HeaderMissing(req.header)
    /\ "auth.getUser" \in calls
    /\ caller # NoUser
    /\ caller = TokenOwner(StripBearer(req.header))
    /\ "users.select.role" \in calls
    /\ callerRole = "admin"

\* C1: in every request, no store or provider call is made for the
\* operation, and no handler is entered, unless earlier in the same request
\* the provider accepted the bearer credential and the resolved role was
\* admin; a DELETE without Authorization header never reaches deleteUser.
C1_NoOperationBeforeGuard ==
    /\ (OperationCalls # {} \/ pc \in OperationPcs) => GuardPassed
    /\ (req.method = "DELETE" /\ ~req.header.present) =>
            "auth.admin.deleteUser" \notin calls

C1_Witness ==
    /\ pc = "done"
    /\ req.method = "DELETE"
    /\ "auth.admin.deleteUser" \in calls
    /\ resp.status = 200
    /\ GuardPassed

\* C2: for every method but the preflight, the answer is 401 exactly when
\* the header is missing or the provider rejected the token, and otherwise
\* 403 exactly when the resolved role is not admin; the role is looked up
\* only after the credential was accepted.
C2_GuardStatus ==
    /\ ("users.select.role" \in calls) => caller # NoUser
    /\ (pc = "done" /\ req.method # "OPTIONS") =>
         /\ (resp.status = 401) <=> (HeaderMissing(req.header) \/ caller = NoUser)
         /\ (resp.status = 403) <=> (caller # NoUser /\ callerRole # "admin")
         /\ (resp.status = 401) => "users.select.role" \notin calls
         /\ (resp.status = 403) => "auth.getUser" \in calls

C2_Witness ==
    /\ pc = "done"
    /\ req.method = "PUT"
    /\ req.path = <<"admin-users", "u1">>
    /\ resp.status = 403
    /\ caller = "u2"
    /\ callerRole = "viewer"

\* C3: a caller whose credential is valid and whose role does not resolve
\* (no directory row, empty role join, failed lookup) is answered 403, never
\* a 5xx status.
C3_UnresolvedRoleIs403 ==
    (pc = "done" /\ caller # NoUser /\ callerRole = NoRole) =>
        /\ resp.status = 403
        /\ OperationCalls = {}

\* an identity without directory row: its role lookup finds nothing
C3_Witness ==
    /\ pc = "done"
    /\ caller # NoUser
    /\ caller \in DOMAIN authUsers
    /\ caller \notin DOMAIN users
    /\ resp.status = 403

\* C4: no handler is entered for a caller whose directory row is inactive.
C4_InactiveNeverDispatched ==
    (pc = "dispatch" /\ caller \in DOMAIN users) => users[caller].is_active

\* C10: the row POST has just inserted has needs_password_reset = true,
\* whatever the body carries.
C10_CreatedNeedsReset ==
    (pc = "post_link") =>
        /\ authUser \in DOMAIN users
        /\ users[authUser].needs_password_reset = TRUE

C10_Witness ==
    /\ pc = "post_link"
    /\ Has(req.body, "needs_password_reset")
    /\ req.body.needs_password_reset = FALSE
    /\ users[authUser].needs_password_reset = TRUE

\* the request in hand passed the guard and was a create with a JSON body
CreateEnded ==
    /\ pc = "done"
    /\ GuardPassed
    /\ req.method = "POST"
    /\ EndsWithAdminUsers(req.path)
    /\ req.bodyOk
BothProvisioned ==
    /\ authUser # NoUser
    /\ authUser \in DOMAIN authUsers
    /\ authUser \in DOMAIN users

\* C11: after a create request that ended in failure, no identity created
\* by that request exists without a directory record, also when the
\* compensating deleteUser call failed.
C11_FailedCreateLeavesNoOrphan ==
    (CreateEnded /\ resp.status >= 400 /\ authUser # NoUser) =>
        ~(authUser \in DOMAIN authUsers /\ authUser \notin DOMAIN users)

\* the identities account creation has provisioned
CreatedIdentities == (minted \ DOMAIN InitAuthUsers) \cap DOMAIN authUsers

\* C12: every identity provisioned through account creation carries an
\* initial credential that passes the password policy, whatever password
\* the create form and the POST body carried.
C12_InitialCredentialPassesPolicy ==
    \A id \in CreatedIdentities : evaluate(authUsers[id].password).valid

\* C13: an authorized create answers 201 exactly when the identity and the
\* directory record were both provisioned and 400 otherwise; the reset
\* link is attempted only when both exist, and whether it succeeds changes
\* neither the 201 nor the two records.
C13_CreateStatus ==
    /\ CreateEnded =>
         /\ resp.status \in {201, 400}
         /\ (resp.status = 201) <=> BothProvisioned
         /\ (resp.status = 201) =>
               /\ users[authUser] = InsertedRow(authUser, req.body)
               /\ authUsers[authUser] =
                     [email |-> req.body.email, password |-> req.body.password]
    /\ (req.method = "POST" /\ links # <<>>) =>
         /\ BothProvisioned
         /\ Len(links) = 1
         /\ links[1].email = users[authUser].email

C13_Witness ==
    /\ CreateEnded
    /\ resp.status = 201
    /\ BothProvisioned
    /\ links = <<[email |-> req.body.email, ok |-> FALSE]>>

\* the request in hand passed the guard and was a DELETE
DeleteEnded ==
    /\ pc = "done"
    /\ GuardPassed
    /\ req.method = "DELETE"

\* C14: after a DELETE that answers success neither the identity nor the
\* directory record of that id exists; a 400 leaves both as they were; no
\* DELETE answers success while exactly one of the two remains.
C14_DeleteRemovesBoth ==
    (DeleteEnded /\ resp.status = 200) =>
        /\ LastSegment(req.path) \notin DOMAIN authUsers
        /\ LastSegment(req.path) \notin DOMAIN users

\* the steps of an update: PutUpdate, PutSelectEmail, PutLink
PutStep == req.method = "PUT" /\ pc \in {"dispatch", "put_email", "put_link"}

\* C15: a PUT changes only the fields present in its body among the seven
\* updatable ones: absent fields, email, id, the stored credentials and
\* every other row stay as they were, and a PUT answering 400 changes
\* nothing.
C15_PutFrame ==
    [][PutStep =>
         LET userId == LastSegment(req.path) IN
         /\ authUsers' = authUsers
         /\ DOMAIN users' = DOMAIN users
         /\ \A id \in DOMAIN users \ {userId} : users'[id] = users[id]
         /\ userId \in DOMAIN users =>
               \A f \in DOMAIN users[userId] :
                   (f \notin UpdatableFields \/ ~Has(req.body, f)) =>
                       users'[userId][f] = users[userId][f]
         /\ (pc' = "done" /\ resp'.status = 400) => users' = users]_vars

C15_Witness ==
    /\ pc = "done"
    /\ req.method = "PUT"
    /\ resp.status = 200
    /\ Has(req.body, "email")
    /\ users[LastSegment(req.path)].full_name = req.body.full_name
    /\ users[LastSegment(req.path)].email # req.body.email

\* C16: a PUT with needs_password_reset = true leaves the flag true and
\* attempts one reset link to the email of that principal; a successful
\* PUT that does not set the flag to true attempts none.
C16_ResetFlagNotifies ==
    (pc = "done" /\ GuardPassed /\ req.method = "PUT" /\ resp.status = 200) =>
        LET userId == LastSegment(req.path) IN
        IF Truthy(req.body, "needs_password_reset")
        THEN /\ users[userId].needs_password_reset = TRUE
             /\ Len(links) = 1
             /\ links[1].email = users[userId].email
        ELSE links = <<>>


(***************************************************************************)
(* The access decision functions                                           *)
(***************************************************************************)
Called(fn) == query.fn = fn
Range(arr) == {arr[i] : i \in DOMAIN arr}
HasGrantSets(user) ==
    {"menu_access", "sub_menu_access", "component_access"} \subseteq DOMAIN user
WithRole(user, r) == [user EXCEPT !.role = r]

\* C5: for the null principal and for every inactive principal, each of the
\* four functions returns false, whatever role and grants the principal has
\* and whatever is asked, and none of them throws.
C5_NullOrInactiveDenied ==
    (query # NoQuery /\ (IsNull(pUser) \/ ~pUser.is_active)) =>
        /\ ~result.threw
        /\ result.value = FALSE

\* an inactive admin asked about a menu that is in its own menu_access
C5_Witness ==
    /\ Called("hasMenuAccess")
    /\ ~IsNull(pUser)
    /\ ~pUser.is_active
    /\ pUser.role = "admin"
    /\ HasGrantSets(pUser)
    /\ query.x \in Range(pUser.menu_access)
    /\ result = Ret(FALSE)

\* C6 as claimed: for every principal whose role is admin, hasPermission
\* returns true for every resource and action.
C6_AdminAllowsAll ==
    (Called("hasPermission") /\ ~IsNull(pUser) /\ pUser.role = "admin") =>
        result = Ret(TRUE)

\* C6 amended: for every active principal whose role is admin, hasPermission
\* returns true for every resource and action, also those in no rule.
C6_ActiveAdminAllowsAll ==
    (Called("hasPermission") /\ ~IsNull(pUser) /\ pUser.is_active
        /\ pUser.role = "admin") =>
        result = Ret(TRUE)

C6_Witness ==
    /\ Called("hasPermission")
    /\ ~IsNull(pUser)
    /\ pUser.is_active
    /\ pUser.role = "admin"
    /\ query.x = "billing"
    /\ query.y = "delete"
    /\ result = Ret(TRUE)

\* the rule table the claims state: (resource, action) -> non-admin roles
\* allowed; every action on users and on admin allows none of them
RuleTable ==
    {<<"dashboard", "access">>, <<"reports", "view">>, <<"reports", "export">>,
     <<"transactions", "create">>, <<"transactions", "approve">>}
RuleAllows(resource, action) ==
    CASE <<resource, action>> = <<"dashboard", "access">> -> {"member", "viewer"}
      [] <<resource, action>> = <<"reports", "view">> -> {"member", "viewer"}
      [] <<resource, action>> = <<"reports", "export">> -> {"member"}
      [] <<resource, action>> = <<"transactions", "create">> -> {"member"}
      [] OTHER -> {}

\* C7: for every non-admin principal, hasPermission returns false for every
\* (resource, action) pair that is no entry of the rule table: an unknown
\* resource, and an unknown action on a known resource.
C7_AbsentPairDenied ==
    (Called("hasPermission") /\ (IsNull(pUser) \/ pUser.role # "admin")
        /\ <<query.x, query.y>> \notin RuleTable) =>
        result = Ret(FALSE)

\* C8: for every active non-admin principal, hasPermission agrees with the
\* rule table on each of its entries and on every action on users and admin.
C8_AgreesWithRuleTable ==
    (Called("hasPermission") /\ ~IsNull(pUser) /\ pUser.is_active
        /\ pUser.role # "admin"
        /\ (<<query.x, query.y>> \in RuleTable \/ query.x \in {"users", "admin"})) =>
        result = Ret(pUser.role \in RuleAllows(query.x, query.y))

\* scenario A: a viewer without grants may access the dashboard
C8_Witness ==
    /\ Called("hasPermission")
    /\ ~IsNull(pUser)
    /\ pUser.is_active
    /\ pUser.role = "viewer"
    /\ HasGrantSets(pUser)
    /\ pUser.menu_access = <<>>
    /\ pUser.component_access = <<>>
    /\ DOMAIN pUser.sub_menu_access = {}
    /\ query.x = "dashboard"
    /\ query.y = "access"
    /\ result = Ret(TRUE)

\* C9: for an active principal the three grant checks return membership in
\* the principal's own grant sets (false when the menu key is absent), and
\* the same with the principal's role replaced by any other role.
C9_GrantChecksIgnoreRole ==
    (~IsNull(pUser) /\ pUser.is_active /\ HasGrantSets(pUser)) =>
        /\ Called("hasMenuAccess") =>
             /\ result = Ret(query.x \in Range(pUser.menu_access))
             /\ \A r \in RoleNames : hasMenuAccess(WithRole(pUser, r), query.x) = result
        /\ Called("hasSubMenuAccess") =>
             /\ result = Ret(/\ query.x \in DOMAIN pUser.sub_menu_access
                             /\ query.y \in Range(pUser.sub_menu_access[query.x]))
             /\ \A r \in RoleNames :
                  hasSubMenuAccess(WithRole(pUser, r), query.x, query.y) = result
        /\ Called("hasComponentAccess") =>
             /\ result = Ret(query.x \in Range(pUser.component_access))
             /\ \A r \in RoleNames : hasComponentAccess(WithRole(pUser, r), query.x) = result

\* an active admin asked about a menu that is not in its menu_access
C9_Witness ==
    /\ Called("hasMenuAccess")
    /\ ~IsNull(pUser)
    /\ pUser.is_active
    /\ pUser.role = "admin"
    /\ HasGrantSets(pUser)
    /\ query.x = "users"
    /\ query.x \notin Range(pUser.menu_access)
    /\ result = Ret(FALSE)


(***************************************************************************)
(* changePassword and the reset page                                       *)
(***************************************************************************)
\* C17: a changePassword call asked to clear the flag is never partially
\* applied: in every state during and after the call the principal has
\* either the old credential and the old flag, or the new credential and
\* needs_password_reset = false.
C17_NeverPartiallyApplied ==
    (cp.pc # "idle" /\ cp.clear /\ cp.target # NoUser) =>
        \/ /\ authUsers[cp.target].password = cp.oldPassword
           /\ users[cp.target].needs_password_reset = cp.oldFlag
        \/ /\ authUsers[cp.target].password = cp.newPassword
           /\ users[cp.target].needs_password_reset = FALSE

\* the users update of lines 346-358 did not run, or ran and failed
FlagStepSkipped(c) == c.resultUser = NoUser
FlagStepFailed(c) == c.outcome = "error"

\* C18: when the new password was set and the update that clears the flag
\* failed or was skipped for want of a user id in the result, the call does
\* not report success: it ends with an error that no failure before the
\* credential change can end with.
C18_FlagFailureIsAnError ==
    (cp.pc = "done" /\ cp.clear /\ cp.credentialSet
        /\ (FlagStepSkipped(cp) \/ FlagStepFailed(cp))) =>
            /\ cp.outcome = "error"
            /\ cp.error \notin CredentialErrors

\* the reset page holds a token that is good for no principal, and the call
\* in hand, if any, is the one the page made
InvalidTokenSubmission ==
    /\ page.accessToken # ""
    /\ RecoveryOwner(page.accessToken) = NoUser
    /\ cp.origin = "reset"

\* C19: a submission of the reset page with an invalid or expired token
\* changes no stored credential and no flag, whatever session the browser
\* holds, and ends with the expired-or-invalid message.
C19_InvalidTokenChangesNothing ==
    [][InvalidTokenSubmission =>
         /\ authUsers' = authUsers
         /\ users' = users
         /\ (page.isLoading /\ ~page'.isLoading) =>
                page'.message = "expired_or_invalid"]_vars

\* the submission is one the claim wants refused: the two fields differ,
\* or the password violates the policy, or no token was extracted
MustRefuse ==
    \/ page.password # page.confirmPassword
    \/ ~evaluate(page.password).valid
    \/ page.accessToken = ""

\* C20: a submission with differing passwords, a password that violates the
\* policy, or no token starts no credential-setting call and leaves
\* credential and flag as they were; the checks come in the order mismatch,
\* policy, token and the first that fails gives the message; no call of
\* the page sets a credential that violates the policy.
C20_RefusedSubmissionSetsNothing ==
    [][ /\ ((page'.submits # page.submits /\ MustRefuse) =>
            /\ cp' = cp
            /\ authUsers' = authUsers
            /\ users' = users
            /\ page'.message \in {"mismatch", "weak", "no_token"}
            /\ (page'.message = "mismatch") <=> (page.password # page.confirmPassword)
            /\ (page'.message = "no_token") => page.validation.isValid)
        /\ ((cp'.origin = "reset" /\ cp'.credentialSet) =>
                evaluate(cp'.newPassword).valid)]_vars

\* C21: after every password change of a logged-in principal that returned
\* without error, with or without the clearNeedsPasswordReset argument, and
\* after every successful reset of the reset page, needs_password_reset of
\* that principal is false.
C21_SuccessMeansNormal ==
    (cp.pc = "done" /\ cp.outcome = "success" /\ cp.token = ""
        /\ cp.target \in DOMAIN users) =>
            users[cp.target].needs_password_reset = FALSE

\* C22: no stored credential is replaced, by either flow of changePassword
\* or by authApi.updatePassword, with a password that fails the policy.
C22_NoCredentialFailsPolicy ==
    [][\A id \in DOMAIN authUsers :
         (id \in DOMAIN authUsers' /\ authUsers'[id].password # authUsers[id].password)
            => evaluate(authUsers'[id].password).valid]_vars

\* C27: under every order of typing, validation answers and submit, the
\* reset page never calls changePassword with a password whose own
\* validation result is not valid.
C27_GateBelongsToSubmittedPassword ==
    (cp.origin = "reset" /\ cp.pc # "idle") => evaluate(cp.newPassword).valid


(***************************************************************************)
(* The AuthProvider                                                        *)
(***************************************************************************)
\* the sign-in in hand carries the email and the stored credential of a user
RightPassword ==
    \E id \in DOMAIN authUsers : /\ authUsers[id].email = si.email
                                 /\ authUsers[id].password = si.password

C26_InactiveNeverCurrent ==
    /\ (si.pc = "done" /\ si.user \in DOMAIN users /\ ~users[si.user].is_active) =>
          (si.outcome = "error" /\ si.error = "Account is inactive")
    /\ (ctx.user # NullProfile) => ctx.user.is_active

\* nothing of the AuthProvider is under way
Settled ==
    /\ tasks = {}
    /\ si.pc \in {"idle", "done"}
    /\ so.pc \in {"idle", "done"}
    /\ sr.pc \in {"idle", "done"}
    /\ cp.pc \in {"idle", "done"}

\* C28: once signOut has completed and every callback has finished, and no
\* signIn has been made since, the current user is null: no profile fetch
\* started before the sign-out sets it back.
C28_SignedOutStaysNull ==
    (so.pc = "done" /\ session = NoUser /\ si.pc = "idle" /\ Settled) =>
        ctx.user = NullProfile

\* a signIn, signOut, changePassword or sendPasswordResetEmail is in flight
InFlight ==
    \/ si.pc \in {"sign_in", "profile"}
    \/ so.pc = "sign_out"
    \/ sr.pc = "send"
    \/ cp.pc \notin {"idle", "done"}

\* C29: loading is true whenever one of the four calls is in flight, also
\* when two of them overlap, and false once all have ended.
C29_LoadingWhileInFlight ==
    /\ InFlight => ctx.loading
    /\ (Settled /\ nauth.calls > 0) => ~ctx.loading


(***************************************************************************)
(* Edits side by side                                                      *)
(***************************************************************************)
\* the handlers that have written field f of principal id
Writers(id, f) ==
    {h \in Handlers : puts[h].wrote > 0 /\ puts[h].id = id /\ Has(puts[h].body, f)}

LastWriter(id, f) ==
    CHOOSE h \in Writers(id, f) : \A g \in Writers(id, f) : puts[g].wrote <= puts[h].wrote

\* C24: the administrator's form was loaded while the principal's flag was
\* set, the principal's password change has committed since, and the form
\* is submitted after that (sawFlag is the stored flag at the submission)
\* without the flag's input having been touched: the write of that PUT
\* keeps the flag false and no reset notification follows it.
C24_EditDoesNotWriteBackStaleFlag ==
    [][\A h \in Handlers :
         (/\ puts[h].pc = "update" /\ puts'[h].wrote > 0
          /\ puts[h].fromForm /\ ~puts[h].sawFlag
          /\ "needs_password_reset" \notin form.touched
          /\ cp.pc = "done" /\ cp.outcome = "success" /\ cp.target = puts[h].id
          /\ ~users[puts[h].id].needs_password_reset)
         => (/\ ~users'[puts[h].id].needs_password_reset
             /\ puts'[h].pc = "done")]_vars

\* C25: the write of a PUT sets every updatable field its body carries and
\* nothing else, in one step; no other step of a handler changes the
\* directory; and of the fields other than the flag (which the principal's
\* password change writes too) each has the value of the last PUT that
\* carried it, whatever the interleaving of two PUTs.
C25_PutAppliesWholeBody ==
    [][/\ \A h \in Handlers :
            IF puts[h].pc = "update" /\ puts'[h].wrote > 0
            THEN \A id \in DOMAIN users : \A f \in DOMAIN users[id] :
                    users'[id][f] = IF /\ id = puts[h].id
                                       /\ f \in UpdatableFields
                                       /\ Has(puts[h].body, f)
                                    THEN puts[h].body[f] ELSE users[id][f]
            ELSE puts'[h] # puts[h] => users' = users
       /\ \A id \in DOMAIN users : \A f \in UpdatableFields \ {"needs_password_reset"} :
            Writers(id, f)' # {} => users'[id][f] = puts'[LastWriter(id, f)'].body[f]
      ]_vars

\* two PUTs about u2 were in their handlers together and both have written;
\* they carry role_id with different values and one carries is_active alone
C25_Witness ==
    /\ \A h \in Handlers : puts[h].pc = "done" /\ puts[h].status = 200 /\ puts[h].id = "u2"
    /\ puts[1].wrote = 2
    /\ puts[2].wrote = 1
    /\ puts[1].fromForm
    /\ puts[1].body.role_id = "r_admin"
    /\ puts[2].body = [role_id |-> NullRoleId, needs_password_reset |-> FALSE]
    /\ users["u2"].role_id = "r_admin"
    /\ ~users["u2"].is_active

====
